---- MODULE Spec2Model ----
(***************************************************************************)
(* Context / unified output of GNU diff (context.c): script preparation,   *)
(* hunk grouping, window expansion, the function-header finder, range and  *)
(* label rendering.  The edit script is the heap of 'struct change'        *)
(* records addressed by index, NULL being 0.                               *)
(***************************************************************************)
EXTENDS Integers, Sequences, FiniteSets, TLC

VARIABLES
    script,                      \* heap of struct change, index -> record
    head,                        \* the SCRIPT argument (0 is an empty script)
    context,                     \* lines of context
    prefix_lines,                \* files[0].prefix_lines
    valid_lines,                 \* <<files[0].valid_lines, files[1].valid_lines>>
    blank,                       \* <<f, i>>: line i of file f is blank
    rematch,                     \* <<f, i>>: line i of file f matches ignore_regexp
    fnline,                      \* lines of file 0 that match function_regexp
    ignore_blank_lines,
    ignore_regexp,               \* ignore_regexp.fastmap is set
    function_regexp,             \* function_regexp.fastmap is set
    find_function_last_search,
    find_function_last_match,
    pc,                          \* position of the emitter
    unidiff,                     \* the UNIDIFF argument of print_context_script
    cur,                         \* mark_ignorable: SCRIPT, the change visited
    saved,                       \* mark_ignorable: NEXT, the link kept aside
    nxt,                         \* print_script: NEXT
    this,                        \* print_script: THIS
    endp,                        \* print_script: END
    groups,                      \* <<this, end>> of every find_hunk call of this emit
    examined,                    \* pairs the last find_hunk call compared
    hunks,                       \* what was written for every hunk emitted in this emit
    carried,                     \* this emit began with a match kept from an earlier one
    probe,                       \* argument of a rendering routine called on its own
    outfile                      \* what that routine wrote

inputs == <<context, prefix_lines, valid_lines, blank, rematch, fnline,
            ignore_blank_lines, ignore_regexp, function_regexp, head>>
finder == <<find_function_last_search, find_function_last_match>>
marker == <<cur, saved>>
printer == <<nxt, this, endp>>
render == <<probe, outfile>>
vars == <<script, inputs, finder, pc, unidiff, marker, printer, groups,
          examined, hunks, carried, render>>

\* ------------------------------------------------------------------ bounds
MaxContext == 2
MaxCount == 2
MaxChanges == 3
MaxPrefix == 1
MaxOver == 2
MaxLine == 11

\* ------------------------------------------------------- program constants
LIN_MAX == 2147483647
LabelWidth == 40
NULL == 0

Max(a, b) == IF a >= b THEN a ELSE b

\* ------------------------------------------------------------ edit scripts
\* A script is described by its changes in order, each with the number of
\* unchanged lines before it (gap), its counts and the class of its lines.

RECURSIVE Line0(_, _)
Line0(chs, k) ==
    IF k = 1 THEN chs[1].gap
    ELSE Line0(chs, k - 1) + chs[k - 1].del + chs[k].gap

RECURSIVE Line1(_, _, _)
Line1(chs, k, skew) ==
    (IF k = 1 THEN chs[1].gap
     ELSE Line1(chs, k - 1, skew) + chs[k - 1].ins + chs[k].gap)
    + (IF k = skew THEN 1 ELSE 0)

\* The chain: change k links to k + 1, the last one to NULL.
Chain(chs, skew, ign) ==
    [k \in 1..Len(chs) |->
        [link |-> IF k < Len(chs) THEN k + 1 ELSE NULL,
         inserted |-> chs[k].ins,
         deleted |-> chs[k].del,
         line0 |-> Line0(chs, k),
         line1 |-> Line1(chs, k, skew),
         ignore |-> ign[k]]]

\* Lines of class c among the lines the changes delete (file 0) or insert
\* (file 1).  In a "mixed" change the first line is text and the rest blank.
LinesOf(chs, skew, c) ==
    UNION {   {<<0, i>> : i \in (Line0(chs, k) + (IF chs[k].cls = "mixed" THEN 1 ELSE 0))
                                 .. (Line0(chs, k) + chs[k].del - 1)}
        \cup {<<1, i>> : i \in (Line1(chs, k, skew) + (IF chs[k].cls = "mixed" THEN 1 ELSE 0))
                                 .. (Line1(chs, k, skew) + chs[k].ins - 1)}
        : k \in {m \in 1..Len(chs) :
                   chs[m].cls = c \/ (c = "blank" /\ chs[m].cls = "mixed")} }

Kinds(dels, inss) == {k \in [del : dels, ins : inss] : k.del + k.ins > 0}

Change(gaps, kinds, classes) ==
    {[gap |-> g, del |-> k.del, ins |-> k.ins, cls |-> c] :
        g \in gaps, k \in kinds, c \in classes}

\* Gaps on both sides of the two thresholds, CONTEXT and 2 * CONTEXT + 1.
NearThresholds(c) == {g \in {1, c - 1, c, 2 * c, 2 * c + 1} : g >= 1}

RECURSIVE Chains(_, _, _)
Chains(n, first, rest) ==
    IF n = 1 THEN {<<f>> : f \in first}
    ELSE {Append(s, r) : s \in Chains(n - 1, first, rest), r \in rest}

AllFalse(n) == [k \in 1..n |-> FALSE]

Scenario(c, p, chs, tail, skew, ibl, ire, ign, fn) ==
    [ctx |-> c, pre |-> p, chs |-> chs, tail |-> tail, skew |-> skew,
     ibl |-> ibl, ire |-> ire, ign |-> ign, fn |-> fn]

\* Grouping: chains of two and more changes around the thresholds, some of
\* them blank under --ignore-blank-lines.
GroupingChains(c) ==
    UNION {Chains(n, Change({1}, {[del |-> 1, ins |-> 0]}, {"text"}),
                     Change(NearThresholds(c),
                            {[del |-> 1, ins |-> 0], [del |-> 0, ins |-> 1]},
                            {"text", "blank"}))
             : n \in 2..MaxChanges}

GroupingScenarios ==
    UNION {{Scenario(c, 0, chs, 1, 0, TRUE, FALSE, AllFalse(Len(chs)), 0) :
                chs \in GroupingChains(c)} : c \in 0..MaxContext}

\* Emission: one change of every kind, at every distance from the two ends
\* of the files, and pairs of changes close to one another.
EmitScenarios ==
    UNION {{Scenario(c, p, <<ch>>, tail, 0, FALSE, FALSE, <<FALSE>>, 0) :
                ch \in Change(0..(c + 1), Kinds(0..MaxCount, 0..MaxCount), {"text"}),
                tail \in 0..(c + 1), p \in 0..MaxPrefix} : c \in 0..MaxContext}
    \cup
    {Scenario(c, 0, chs, 1, 0, FALSE, FALSE, <<FALSE, FALSE>>, 0) :
        chs \in Chains(2, Change({1}, Kinds(0..MaxCount, 0..MaxCount), {"text"}),
                          Change({1, 2}, Kinds(0..MaxCount, 0..MaxCount), {"text"})),
        c \in 0..MaxContext}

\* Inconsistent scripts: line1 of one change is off by one.
SkewChains(c) ==
    UNION {Chains(n, Change({1}, {[del |-> 1, ins |-> 1]}, {"text"}),
                     Change({1, 2 * c + 1}, {[del |-> 1, ins |-> 1]}, {"text"}))
             : n \in 1..MaxChanges}

SkewScenarios ==
    UNION {{Scenario(c, 0, chs, 1, k, FALSE, FALSE, AllFalse(Len(chs)), 0) :
                chs \in SkewChains(c), k \in 1..MaxChanges} : c \in 0..MaxContext}

\* Script preparation: every option setting, every initial ignore flag.
IgnoreChanges ==
    Change({1}, {[del |-> MaxCount, ins |-> 0], [del |-> 1, ins |-> 1]},
           {"text", "blank", "re", "mixed"})

IgnoreScenarios ==
    {Scenario(1, 0, chs, 1, 0, ibl, ire, ign, 0) :
        chs \in Chains(2, IgnoreChanges, IgnoreChanges),
        ibl \in BOOLEAN, ire \in BOOLEAN, ign \in [1..2 -> BOOLEAN]}

\* Function headers: several hunks, function_regexp set.
FinderChains(c) ==
    UNION {Chains(n, Change(0..2, {[del |-> 1, ins |-> 0]}, {"text"}),
                     Change({2 * c + 1}, {[del |-> 1, ins |-> 0]}, {"text"}))
             : n \in 1..MaxChanges}

FinderScenarios ==
    UNION {{Scenario(c, p, chs, 1, 0, FALSE, FALSE, AllFalse(Len(chs)), 2) :
                chs \in FinderChains(c), p \in 0..MaxPrefix} : c \in 0..1}

\* Function headers where some hunks are split at an ignorable change or
\* not printed at all.
FinderIgnoreChains ==
    Chains(3, Change({1}, {[del |-> 1, ins |-> 0]}, {"text", "blank"}),
              Change(NearThresholds(1), {[del |-> 1, ins |-> 0]}, {"text", "blank"}))

FinderIgnoreScenarios ==
    {Scenario(1, 0, chs, 1, 0, TRUE, FALSE, AllFalse(3), 1) :
        chs \in FinderIgnoreChains}

Scenarios ==
    GroupingScenarios \cup EmitScenarios \cup SkewScenarios
        \cup IgnoreScenarios \cup FinderScenarios \cup FinderIgnoreScenarios

Valid0(sc) == LET n == Len(sc.chs) IN Line0(sc.chs, n) + sc.chs[n].del + sc.tail
Valid1(sc) == LET n == Len(sc.chs) IN Line1(sc.chs, n, sc.skew) + sc.chs[n].ins + sc.tail

\* Which lines of file 0 match function_regexp: at most sc.fn of them;
\* function_regexp is not set when sc.fn is 0.
FunctionLines(sc) ==
    LET L == (0 - sc.pre)..(Valid0(sc) - 1)
    IN {{}} \cup (IF sc.fn >= 1 THEN {{i} : i \in L} ELSE {})
            \cup (IF sc.fn >= 2 THEN {{i, j} : i \in L, j \in L} ELSE {})

\* ------------------------------------------------------------------- Init
\* The statics of context.c are zero before the first call.
Init ==
    \E sc \in Scenarios : \E fl \in FunctionLines(sc) :
        /\ script = Chain(sc.chs, sc.skew, sc.ign)
        /\ head = 1
        /\ context = sc.ctx
        /\ prefix_lines = sc.pre
        /\ valid_lines = <<Valid0(sc), Valid1(sc)>>
        /\ blank = LinesOf(sc.chs, sc.skew, "blank")
        /\ rematch = LinesOf(sc.chs, sc.skew, "re")
        /\ fnline = fl
        /\ ignore_blank_lines = sc.ibl
        /\ ignore_regexp = sc.ire
        /\ function_regexp = (sc.fn > 0)
        /\ find_function_last_search = 0
        /\ find_function_last_match = 0
        /\ pc = "idle"
        /\ unidiff = FALSE
        /\ cur = NULL
        /\ saved = NULL
        /\ nxt = NULL
        /\ this = NULL
        /\ endp = NULL
        /\ groups = <<>>
        /\ examined = {}
        /\ hunks = <<>>
        /\ carried = FALSE
        /\ probe = <<>>
        /\ outfile = <<>>

\* ------------------------------------------------------------ analyze_hunk
\* The changes of a hunk: from K along the links to the nulled link.
RECURSIVE Run(_, _)
Run(s, k) == IF k = NULL THEN <<>> ELSE <<k>> \o Run(s, s[k].link)

\* A line that does not count as a difference.
Ignorable(f, i) ==
    \/ ignore_blank_lines /\ <<f, i>> \in blank
    \/ ignore_regexp /\ <<f, i>> \in rematch

\* The hunk is trivial when every line it deletes or inserts is ignorable.
Trivial(s, hunk) ==
    /\ ignore_blank_lines \/ ignore_regexp
    /\ \A n \in 1..Len(Run(s, hunk)) :
          LET c == s[Run(s, hunk)[n]] IN
          /\ \A i \in c.line0..(c.line0 + c.deleted - 1) : Ignorable(0, i)
          /\ \A i \in c.line1..(c.line1 + c.inserted - 1) : Ignorable(1, i)

Sum(s, run, field) ==
    LET RECURSIVE Go(_)
        Go(n) == IF n = 0 THEN 0 ELSE Go(n - 1) + s[run[n]][field]
    IN Go(Len(run))

\* changes is UNCHANGED ({}), OLD, NEW or CHANGED ({"OLD", "NEW"}).
analyze_hunk(s, hunk) ==
    LET run == Run(s, hunk)
        l == s[run[Len(run)]]
    IN [changes |-> IF Trivial(s, hunk) THEN {}
                    ELSE (IF Sum(s, run, "deleted") > 0 THEN {"OLD"} ELSE {})
                         \cup (IF Sum(s, run, "inserted") > 0 THEN {"NEW"} ELSE {}),
        first0 |-> s[hunk].line0,
        last0 |-> l.line0 + l.deleted - 1,
        first1 |-> s[hunk].line1,
        last1 |-> l.line1 + l.inserted - 1]

\* -------------------------------------------------------------- find_hunk
\* The do-while loop of find_hunk.  CHECKALL is whether the consistency
\* test comes before the end-test, as it does in the code.
RECURSIVE FindHunkLoop(_, _, _, _, _, _)
FindHunkLoop(s, start, seen, ignorable_threshold, non_ignorable_threshold, checkall) ==
    LET top0 == s[start].line0 + s[start].deleted
        top1 == s[start].line1 + s[start].inserted
        prev == start
        nx == s[start].link
        thresh == IF nx # NULL /\ s[nx].ignore
                  THEN ignorable_threshold ELSE non_ignorable_threshold
        now == IF nx # NULL THEN seen \cup {<<prev, nx>>} ELSE seen
        goon == nx # NULL /\ s[nx].line0 - top0 < thresh
    IN IF /\ nx # NULL
          /\ checkall \/ goon
          /\ s[nx].line0 - top0 # s[nx].line1 - top1
       THEN [abort |-> TRUE, end |-> prev, examined |-> now]
       ELSE IF goon
       THEN FindHunkLoop(s, nx, now, ignorable_threshold,
                         non_ignorable_threshold, checkall)
       ELSE [abort |-> FALSE, end |-> prev, examined |-> now]

\* find_hunk with one threshold, whatever the ignore flag of the next change.
find_hunk_one_threshold(s, start) ==
    FindHunkLoop(s, start, {}, 2 * context + 1, 2 * context + 1, TRUE)

\* find_hunk with the consistency test made only on the pairs it keeps together.
find_hunk_check_within(s, start) ==
    FindHunkLoop(s, start, {}, context, 2 * context + 1, FALSE)

\* find_hunk returning the change its loop stopped at, not the one before.
find_hunk_beyond(s, start) ==
    LET r == FindHunkLoop(s, start, {}, context, 2 * context + 1, TRUE)
    IN [r EXCEPT !.end = s[r.end].link]

\* find_hunk with the two thresholds taken the other way round.
find_hunk_eager(s, start) ==
    FindHunkLoop(s, start, {}, 2 * context + 1, context, TRUE)

find_hunk(s, start) ==
    FindHunkLoop(s, start, {}, context, 2 * context + 1, TRUE)

\* ---------------------------------------------------------- find_function
\* re_search on line i of file 0 succeeds iff i is in fnline.  A line is
\* returned as <<i>>, NULL as <<>>.
RECURSIVE FindFunctionScan(_, _)
FindFunctionScan(i, last) ==
    IF last <= i
    THEN IF i \in fnline THEN <<i>> ELSE FindFunctionScan(i - 1, last)
    ELSE <<>>

\* find_function without the fallback to the previous match.
find_function_forgetful(linenum, last_search, last_match) ==
    LET hit == FindFunctionScan(linenum - 1, last_search)
    IN [function |-> hit,
        last_search |-> linenum,
        last_match |-> IF hit # <<>> THEN hit[1] ELSE last_match]

find_function(linenum, last_search, last_match) ==
    LET hit == FindFunctionScan(linenum - 1, last_search)
    IN [function |-> IF hit # <<>> THEN hit
                     ELSE IF last_match # LIN_MAX THEN <<last_match>>
                     ELSE <<>>,
        last_search |-> linenum,
        last_match |-> IF hit # <<>> THEN hit[1] ELSE last_match]

\* The finder after a hunk whose window starts at first0.
FunctionOf(first0) ==
    IF function_regexp
    THEN find_function(first0, find_function_last_search, find_function_last_match)
    ELSE [function |-> <<>>,
          last_search |-> find_function_last_search,
          last_match |-> find_function_last_match]

\* ---------------------------------------------------------------- printing
RECURSIVE Digits(_)
Digits(n) ==
    IF n < 0 THEN <<"-">> \o Digits(0 - n)
    ELSE IF n < 10
    THEN <<CASE n = 0 -> "0" [] n = 1 -> "1" [] n = 2 -> "2" [] n = 3 -> "3"
             [] n = 4 -> "4" [] n = 5 -> "5" [] n = 6 -> "6" [] n = 7 -> "7"
             [] n = 8 -> "8" [] OTHER -> "9">>
    ELSE Digits(n \div 10) \o Digits(n % 10)

\* translate_range: internal line numbers to real ones.
translate_range(a, b) ==
    [trans_a |-> a + prefix_lines + 1, trans_b |-> b + prefix_lines + 1]

\* The range printing POSIX asks for: two numbers even when they are equal.
print_context_number_range_posix(a, b) ==
    LET t == translate_range(a, b)
    IN IF t.trans_b < t.trans_a
       THEN Digits(t.trans_b)
       ELSE Digits(t.trans_a) \o <<",">> \o Digits(t.trans_b)

print_context_number_range(a, b) ==
    LET t == translate_range(a, b)
    IN IF t.trans_b <= t.trans_a
       THEN Digits(t.trans_b)
       ELSE Digits(t.trans_a) \o <<",">> \o Digits(t.trans_b)

\* The "more logical" printing of an empty range: its first number.
print_unidiff_number_range_first(a, b) ==
    LET t == translate_range(a, b)
    IN IF t.trans_b <= t.trans_a
       THEN IF t.trans_b < t.trans_a
            THEN Digits(t.trans_a) \o <<",", "0">>
            ELSE Digits(t.trans_b)
       ELSE Digits(t.trans_a) \o <<",">> \o Digits(t.trans_b - t.trans_a + 1)

print_unidiff_number_range(a, b) ==
    LET t == translate_range(a, b)
    IN IF t.trans_b <= t.trans_a
       THEN IF t.trans_b < t.trans_a
            THEN Digits(t.trans_b) \o <<",", "0">>
            ELSE Digits(t.trans_b)
       ELSE Digits(t.trans_a) \o <<",">> \o Digits(t.trans_b - t.trans_a + 1)

\* The bytes a line of the model is made of include no vertical tab.
c_isspace(ch) == ch \in {" ", "\t", "\n", "\f", "\r"}

\* print_context_function: FUNCTION is the line, 1-based here, ending in a
\* newline; i and j are the 0-based offsets of the code.
RECURSIVE SkipSpace(_, _)
SkipSpace(function, i) ==
    IF c_isspace(function[i + 1]) /\ function[i + 1] # "\n"
    THEN SkipSpace(function, i + 1) ELSE i

RECURSIVE TakeLabel(_, _, _, _)
TakeLabel(function, i, j, width) ==
    IF j < i + width /\ function[j + 1] # "\n"
    THEN TakeLabel(function, i, j + 1, width) ELSE j

RECURSIVE TrimLabel(_, _, _)
TrimLabel(function, i, j) ==
    IF i < j /\ c_isspace(function[j])
    THEN TrimLabel(function, i, j - 1) ELSE j

\* print_context_function without the right trim.
print_context_function_untrimmed(function) ==
    LET i == SkipSpace(function, 0)
        j == TakeLabel(function, i, i, LabelWidth)
    IN <<" ">> \o SubSeq(function, i + 1, j)

print_context_function(function) ==
    LET i == SkipSpace(function, 0)
        j == TrimLabel(function, i, TakeLabel(function, i, i, LabelWidth))
    IN <<" ">> \o SubSeq(function, i + 1, j)

\* ------------------------------------------------------------ the emitters
\* Include a context's width before and after.
Window(a) ==
    [first0 |-> Max(a.first0 - context, 0 - prefix_lines),
     first1 |-> Max(a.first1 - context, 0 - prefix_lines),
     last0 |-> IF a.last0 < valid_lines[1] - context
               THEN a.last0 + context ELSE valid_lines[1] - 1,
     last1 |-> IF a.last1 < valid_lines[2] - context
               THEN a.last1 + context ELSE valid_lines[2] - 1]

Line(mark, f, i) == [mark |-> mark, file |-> f, line |-> i]

Lines(mark, f, from, n) == [k \in 1..n |-> Line(mark, f, from + k - 1)]

\* The interleave loop stopping as soon as one of the cursors is past its end.
RECURSIVE UnidiffLoopBoth(_, _, _, _, _, _, _)
UnidiffLoopBoth(s, next, i, j, last0, last1, out) ==
    IF ~(i <= last0 /\ j <= last1)
    THEN [i |-> i, j |-> j, lines |-> out]
    ELSE IF next = NULL \/ i < s[next].line0
    THEN UnidiffLoopBoth(s, next, i + 1, j + 1, last0, last1,
                         Append(out, Line(" ", 0, i)))
    ELSE UnidiffLoopBoth(s, s[next].link, i + s[next].deleted,
                         j + s[next].inserted, last0, last1,
                         out \o Lines("-", 0, i, s[next].deleted)
                             \o Lines("+", 1, j, s[next].inserted))

\* The interleave loop writing the inserted part of a change before the
\* deleted part.
RECURSIVE UnidiffLoopInsertedFirst(_, _, _, _, _, _, _)
UnidiffLoopInsertedFirst(s, next, i, j, last0, last1, out) ==
    IF ~(i <= last0 \/ j <= last1)
    THEN [i |-> i, j |-> j, lines |-> out]
    ELSE IF next = NULL \/ i < s[next].line0
    THEN UnidiffLoopInsertedFirst(s, next, i + 1, j + 1, last0, last1,
                                  Append(out, Line(" ", 0, i)))
    ELSE UnidiffLoopInsertedFirst(s, s[next].link, i + s[next].deleted,
                                  j + s[next].inserted, last0, last1,
                                  out \o Lines("+", 1, j, s[next].inserted)
                                      \o Lines("-", 0, i, s[next].deleted))

\* The interleave loop of pr_unidiff_hunk.
RECURSIVE UnidiffLoop(_, _, _, _, _, _, _)
UnidiffLoop(s, next, i, j, last0, last1, out) ==
    IF ~(i <= last0 \/ j <= last1)
    THEN [i |-> i, j |-> j, lines |-> out]
    ELSE IF next = NULL \/ i < s[next].line0
    THEN UnidiffLoop(s, next, i + 1, j + 1, last0, last1,
                     Append(out, Line(" ", 0, i)))
    ELSE UnidiffLoop(s, s[next].link, i + s[next].deleted, j + s[next].inserted,
                     last0, last1,
                     out \o Lines("-", 0, i, s[next].deleted)
                         \o Lines("+", 1, j, s[next].inserted))

\* The skip loop leaving a change only once line I is beyond its end.
RECURSIVE SkipPastStrict(_, _, _, _)
SkipPastStrict(s, next, f, i) ==
    IF /\ next # NULL
       /\ (IF f = 0 THEN s[next].line0 + s[next].deleted
                    ELSE s[next].line1 + s[next].inserted) < i
    THEN SkipPastStrict(s, s[next].link, f, i) ELSE next

\* The two marking loops of pr_context_hunk, for file 0 and for file 1.
RECURSIVE SkipPast(_, _, _, _)
SkipPast(s, next, f, i) ==
    IF /\ next # NULL
       /\ (IF f = 0 THEN s[next].line0 + s[next].deleted
                    ELSE s[next].line1 + s[next].inserted) <= i
    THEN SkipPast(s, s[next].link, f, i) ELSE next

RECURSIVE ContextLoop(_, _, _, _, _, _)
ContextLoop(s, next, f, i, last, out) ==
    IF ~(i <= last) THEN out
    ELSE LET n == SkipPast(s, next, f, i)
             covers == n # NULL /\ (IF f = 0 THEN s[n].line0 ELSE s[n].line1) <= i
             prefix == IF ~covers THEN " "
                       ELSE IF f = 0
                       THEN (IF s[n].inserted > 0 THEN "!" ELSE "-")
                       ELSE (IF s[n].deleted > 0 THEN "!" ELSE "+")
         IN ContextLoop(s, n, f, i + 1, last, Append(out, Line(prefix, f, i)))

Written(fmt, s, hunk, a, w, fn, range0, range1, loop) ==
    [fmt |-> fmt, this |-> hunk, run |-> Run(s, hunk), changes |-> a.changes,
     first0 |-> w.first0, last0 |-> w.last0,
     first1 |-> w.first1, last1 |-> w.last1,
     function |-> fn.function, range0 |-> range0, range1 |-> range1,
     i |-> loop.i, j |-> loop.j, lines |-> loop.lines]

\* What pr_unidiff_hunk writes for HUNK, <<>> when it returns at once.
pr_unidiff_hunk(s, hunk) ==
    LET a == analyze_hunk(s, hunk)
        w == Window(a)
        fn == FunctionOf(w.first0)
    IN IF a.changes = {} THEN <<>>
       ELSE <<Written("unified", s, hunk, a, w, fn,
                      print_unidiff_number_range(w.first0, w.last0),
                      print_unidiff_number_range(w.first1, w.last1),
                      UnidiffLoop(s, hunk, w.first0, w.first1, w.last0, w.last1, <<>>))>>

pr_context_hunk(s, hunk) ==
    LET a == analyze_hunk(s, hunk)
        w == Window(a)
        fn == FunctionOf(w.first0)
        old == IF "OLD" \in a.changes
               THEN ContextLoop(s, hunk, 0, w.first0, w.last0, <<>>) ELSE <<>>
        new == IF "NEW" \in a.changes
               THEN ContextLoop(s, hunk, 1, w.first1, w.last1, <<>>) ELSE <<>>
    IN IF a.changes = {} THEN <<>>
       ELSE <<Written("context", s, hunk, a, w, fn,
                      print_context_number_range(w.first0, w.last0),
                      print_context_number_range(w.first1, w.last1),
                      [i |-> w.last0 + 1, j |-> w.last1 + 1, lines |-> old \o new])>>

\* ------------------------------------------------------------------ steps
\* The finder left as the previous emit left it.
FinderKept ==
    [last_search |-> find_function_last_search,
     last_match |-> find_function_last_match]

\* What print_context_script sets before it prints: lines 109-110.
FinderReset ==
    [last_search |-> 0 - prefix_lines, last_match |-> LIN_MAX]

\* The else-branch of print_context_script: lines 104-106.
ClearIgnore(s) == [k \in DOMAIN s |-> [s[k] EXCEPT !.ignore = FALSE]]

\* print_context_script is called: the (script, unidiff) arguments.  With
\* an ignore option set it goes into mark_ignorable; otherwise it clears
\* the flags, resets the finder and enters print_script.
PrintContextScript ==
    /\ pc = "idle"
    /\ \E u \in BOOLEAN : unidiff' = u
    /\ groups' = <<>>
    /\ examined' = {}
    /\ hunks' = <<>>
    /\ IF ignore_blank_lines \/ ignore_regexp
       THEN /\ pc' = "mark"
            /\ cur' = head
            /\ UNCHANGED <<script, finder, nxt>>
       ELSE /\ script' = ClearIgnore(script)
            /\ find_function_last_search' = FinderReset.last_search
            /\ find_function_last_match' = FinderReset.last_match
            /\ pc' = "script"
            /\ nxt' = head
            /\ UNCHANGED cur
    /\ UNCHANGED <<inputs, saved, this, endp, carried, render>>

\* mark_ignorable, lines 443-447: keep the link aside and detach the change.
MarkDetach ==
    /\ pc = "mark"
    /\ cur # NULL
    /\ saved' = script[cur].link
    /\ script' = [script EXCEPT ![cur].link = NULL]
    /\ pc' = "marking"
    /\ UNCHANGED <<inputs, finder, unidiff, cur, printer, groups, examined,
                   hunks, carried, render>>

\* The flag flipped, instead of set, when the change is ignorable.
MarkFlagFlip(s, k) == (analyze_hunk(s, k).changes = {}) # s[k].ignore

\* The flag mark_ignorable gives the detached change SCRIPT.
MarkFlag(s, k) == analyze_hunk(s, k).changes = {}

\* mark_ignorable as a whole, from the change K on.
RECURSIVE mark_ignorable(_, _)
mark_ignorable(s, k) ==
    IF k = NULL THEN s
    ELSE LET next == s[k].link
             detached == [s EXCEPT ![k].link = NULL]
             marked == [detached EXCEPT ![k].ignore = MarkFlag(detached, k),
                                        ![k].link = next]
         IN mark_ignorable(marked, next)

\* The ignore-marking phase of print_context_script: lines 100-107.
PrepareScript(s) ==
    IF ignore_blank_lines \/ ignore_regexp
    THEN mark_ignorable(s, head) ELSE ClearIgnore(s)

\* mark_ignorable advancing without reconnecting the change it detached.
MarkAnalyzeDetached ==
    /\ pc = "marking"
    /\ script' = [script EXCEPT ![cur].ignore = MarkFlag(script, cur)]
    /\ cur' = saved
    /\ pc' = "mark"
    /\ UNCHANGED <<inputs, finder, unidiff, saved, printer, groups, examined,
                   hunks, carried, render>>

\* mark_ignorable, lines 450-457: set the flag, reconnect, advance.
MarkAnalyze ==
    /\ pc = "marking"
    /\ script' = [script EXCEPT ![cur].ignore = MarkFlag(script, cur),
                                ![cur].link = saved]
    /\ cur' = saved
    /\ pc' = "mark"
    /\ UNCHANGED <<inputs, finder, unidiff, saved, printer, groups, examined,
                   hunks, carried, render>>

\* mark_ignorable returns; print_context_script resets the finder and
\* enters print_script.
MarkDone ==
    /\ pc = "mark"
    /\ cur = NULL
    /\ find_function_last_search' = FinderReset.last_search
    /\ find_function_last_match' = FinderReset.last_match
    /\ pc' = "script"
    /\ nxt' = head
    /\ UNCHANGED <<script, inputs, unidiff, marker, this, endp, groups,
                   examined, hunks, carried, render>>

\* print_script: find the end of the hunk that starts at NEXT and
\* disconnect it from the rest; find_hunk may abort.
FindHunk ==
    /\ pc = "script"
    /\ nxt # NULL
    /\ LET r == find_hunk(script, nxt) IN
       /\ examined' = r.examined
       /\ IF r.abort
          THEN /\ pc' = "aborted"
               /\ UNCHANGED <<script, printer, groups>>
          ELSE /\ this' = nxt
               /\ endp' = r.end
               /\ nxt' = script[r.end].link
               /\ script' = [script EXCEPT ![r.end].link = NULL]
               /\ groups' = Append(groups, <<nxt, r.end>>)
               /\ pc' = "print"
    /\ UNCHANGED <<inputs, finder, unidiff, marker, hunks, carried, render>>

\* print_script: print the hunk THIS and reconnect the chain.
PrintHunk ==
    /\ pc = "print"
    /\ LET w == IF unidiff THEN pr_unidiff_hunk(script, this)
                           ELSE pr_context_hunk(script, this)
           fn == FunctionOf(w[1].first0)
       IN /\ hunks' = hunks \o w
          /\ find_function_last_search' =
                IF w = <<>> THEN find_function_last_search ELSE fn.last_search
          /\ find_function_last_match' =
                IF w = <<>> THEN find_function_last_match ELSE fn.last_match
    /\ script' = [script EXCEPT ![endp].link = nxt]
    /\ pc' = "script"
    /\ UNCHANGED <<inputs, unidiff, marker, printer, groups, examined,
                   carried, render>>

\* print_script returns: the emit is over.
ScriptDone ==
    /\ pc = "script"
    /\ nxt = NULL
    /\ pc' = "done"
    /\ UNCHANGED <<script, inputs, finder, unidiff, marker, printer, groups,
                   examined, hunks, carried, render>>

\* The next comparison: the same pair of files again, or a file 0 of the
\* same shape in which no line matches function_regexp.
NextComparison ==
    /\ pc = "done"
    /\ pc' = "idle"
    /\ fnline' \in {fnline, {}}
    /\ carried' = (find_function_last_match # LIN_MAX)
    /\ groups' = <<>>
    /\ examined' = {}
    /\ hunks' = <<>>
    /\ UNCHANGED <<script, context, prefix_lines, valid_lines, blank, rematch,
                   ignore_blank_lines, ignore_regexp, function_regexp, head,
                   finder, unidiff, marker, printer, render>>

Next ==
    \/ PrintContextScript
    \/ MarkDetach
    \/ MarkAnalyze
    \/ MarkDone
    \/ FindHunk
    \/ PrintHunk
    \/ ScriptDone
    \/ NextComparison

Spec == Init /\ [][Next]_vars

\* ------------------------------------------- the rendering routines alone
Rep(ch, n) == [k \in 1..n |-> ch]

\* Lines of file 0: white space, text, white space, text, newline.
LabelLines ==
    {Rep(" ", a) \o Rep("x", b) \o Rep("\t", c) \o Rep("y", d) \o <<"\n">> :
        a \in 0..2, b \in 0..(LabelWidth + MaxOver),
        c \in {0, 1, LabelWidth}, d \in 0..1}

RenderCalls ==
    {[fn |-> f, a |-> a, b |-> a + d, pre |-> p] :
        f \in {"unidiff", "context"}, a \in (0 - MaxPrefix)..MaxLine,
        d \in (0 - 2)..3, p \in 0..MaxPrefix}
    \cup {[fn |-> "function", line |-> l, pre |-> 0] : l \in LabelLines}

RenderInit ==
    \E c \in RenderCalls :
        /\ probe = c
        /\ outfile = <<>>
        /\ prefix_lines = c.pre
        /\ pc = "call"
        /\ script = <<>>
        /\ head = NULL
        /\ context = 0
        /\ valid_lines = <<0, 0>>
        /\ blank = {}
        /\ rematch = {}
        /\ fnline = {}
        /\ ignore_blank_lines = FALSE
        /\ ignore_regexp = FALSE
        /\ function_regexp = FALSE
        /\ find_function_last_search = 0
        /\ find_function_last_match = 0
        /\ unidiff = FALSE
        /\ cur = NULL
        /\ saved = NULL
        /\ nxt = NULL
        /\ this = NULL
        /\ endp = NULL
        /\ groups = <<>>
        /\ examined = {}
        /\ hunks = <<>>
        /\ carried = FALSE

Returned(out) ==
    /\ outfile' = out
    /\ pc' = "returned"
    /\ UNCHANGED <<script, inputs, finder, unidiff, marker, printer, groups,
                   examined, hunks, carried, probe>>

CallUnidiffRange ==
    /\ pc = "call"
    /\ probe.fn = "unidiff"
    /\ Returned(print_unidiff_number_range(probe.a, probe.b))

CallContextRange ==
    /\ pc = "call"
    /\ probe.fn = "context"
    /\ Returned(print_context_number_range(probe.a, probe.b))

CallContextFunction ==
    /\ pc = "call"
    /\ probe.fn = "function"
    /\ Returned(print_context_function(probe.line))

RenderNext ==
    \/ CallUnidiffRange
    \/ CallContextRange
    \/ CallContextFunction

SpecRender == RenderInit /\ [][RenderNext]_vars

\* ------------------------------------------------------------------ claims
NChanges == Len(script)

\* Unchanged lines between change k and its successor, in either file.
Gap0(k) == script[k + 1].line0 - (script[k].line0 + script[k].deleted)
Gap1(k) == script[k + 1].line1 - (script[k].line1 + script[k].inserted)

\* A script of two files: the unchanged lines before the first change,
\* between successive changes and after the last one are the same in
\* number in both files.
Consistent ==
    /\ NChanges >= 1
    /\ script[1].line0 = script[1].line1
    /\ \A k \in 1..(NChanges - 1) : Gap0(k) = Gap1(k)
    /\ valid_lines[1] - (script[NChanges].line0 + script[NChanges].deleted)
         = valid_lines[2] - (script[NChanges].line1 + script[NChanges].inserted)

Grouped == pc \in {"script", "print", "done"}

\* Changes k and k + 1 were put in one hunk by print_script.
SameHunk(k) ==
    \E n \in 1..Len(groups) : groups[n][1] <= k /\ k + 1 <= groups[n][2]

\* The find_hunk call that decides about k and k + 1 has returned.
Decided(k) == groups # <<>> /\ k <= groups[Len(groups)][2]

C2_NoOverlap ==
    Consistent =>
        \A n \in 1..(Len(hunks) - 1) :
            /\ hunks[n].last0 < hunks[n + 1].first0
            /\ hunks[n].last1 < hunks[n + 1].first1

Rendered(fn) == pc = "returned" /\ probe.fn = fn

RECURSIVE Value(_)
Value(ds) ==
    IF ds = <<>> THEN 0
    ELSE 10 * Value(SubSeq(ds, 1, Len(ds) - 1))
         + (CHOOSE n \in 0..9 : Digits(n) = <<ds[Len(ds)]>>)

\* The length a printed unified range announces: the number after the
\* comma, and 1 when there is no comma.
Announced(range) ==
    IF \E k \in 1..Len(range) : range[k] = ","
    THEN LET k == CHOOSE k \in 1..Len(range) : range[k] = ","
         IN Value(SubSeq(range, k + 1, Len(range)))
    ELSE 1

Count(lines, marks) == Cardinality({k \in 1..Len(lines) : lines[k].mark \in marks})

\* C5: for every hunk of a consistent script emitted in unified format, at
\* the exit of the interleave loop i = last0 + 1 and j = last1 + 1, and
\* the lines emitted for each side are as many as the @@ header announces.
C5_UnidiffCursors ==
    Consistent =>
        \A n \in 1..Len(hunks) :
            hunks[n].fmt = "unified" =>
                /\ hunks[n].i = hunks[n].last0 + 1
                /\ hunks[n].j = hunks[n].last1 + 1
                /\ Count(hunks[n].lines, {" ", "-"}) = Announced(hunks[n].range0)
                /\ Count(hunks[n].lines, {" ", "+"}) = Announced(hunks[n].range1)

\* C5 happens: a unified hunk whose window is clamped at the start of the
\* files and at their end, and whose last change is a pure insertion.
C5_Witness ==
    /\ Consistent
    /\ \E n \in 1..Len(hunks) :
          LET h == hunks[n]
              l == script[h.run[Len(h.run)]]
          IN /\ h.fmt = "unified"
             /\ l.deleted = 0
             /\ script[h.this].line0 - context < 0 - prefix_lines
             /\ h.first0 = 0 - prefix_lines
             /\ l.line0 + l.deleted - 1 + context > valid_lines[1] - 1
             /\ h.last0 = valid_lines[1] - 1
             /\ h.i = h.last0 + 1 /\ h.j = h.last1 + 1
             /\ Len(h.lines) >= 3

\* The last line before LINENUM that matches function_regexp, by a full scan.
FullScan(linenum) ==
    LET M == {i \in fnline : 0 - prefix_lines <= i /\ i < linenum}
    IN IF M = {} THEN <<>> ELSE <<CHOOSE i \in M : \A m \in M : m <= i>>

\* C6: in every emit, for every emitted hunk in order, find_function gives
\* the matching line of file 0 with the largest index in
\* [-prefix_lines, first0), and none iff there is no such line.
C6_FunctionFinder ==
    (Consistent /\ function_regexp) =>
        \A n \in 1..Len(hunks) : hunks[n].function = FullScan(hunks[n].first0)

\* C6 happens: a later hunk is labelled with a line matched for an earlier
\* hunk, nothing matching in between.
C6_Witness ==
    /\ Consistent /\ function_regexp
    /\ \E n \in 2..Len(hunks) :
          /\ hunks[n].function # <<>>
          /\ hunks[n].function[1] < hunks[n - 1].first0
          /\ hunks[n - 1].first0 < hunks[n].first0

\* C7: in every emit, before the first find_function call last_search is
\* -prefix_lines and last_match is the 'none' sentinel; a hunk is never
\* labelled with a line matched in an earlier comparison.
C7_FinderReset ==
    /\ (pc \in {"script", "print"} /\ hunks = <<>>) =>
          /\ find_function_last_search = 0 - prefix_lines
          /\ find_function_last_match = LIN_MAX
    /\ \A n \in 1..Len(hunks) :
          hunks[n].function # <<>> =>
              /\ hunks[n].function[1] \in fnline
              /\ hunks[n].function[1] < hunks[n].first0

\* C7 happens: an emit that began with a match kept from the previous one
\* is about to print its first hunk.
C7_Witness ==
    /\ carried /\ function_regexp
    /\ pc = "print" /\ hunks = <<>>
    /\ find_function_last_search = 0 - prefix_lines
    /\ find_function_last_match = LIN_MAX

\* The pairs find_hunk(start) has to compare: each pair of successive
\* changes from start on, up to the first pair that is inconsistent or at
\* least the threshold apart.
Within(k) ==
    Gap0(k) < (IF script[k + 1].ignore THEN context ELSE 2 * context + 1)

Compared(start) ==
    {<<k, k + 1>> : k \in {k \in start..(NChanges - 1) :
                             \A m \in start..(k - 1) :
                                 Within(m) /\ Gap0(m) = Gap1(m)}}

\* C8: find_hunk aborts iff one of the pairs it examines has different
\* gaps in the two files, whether or not that pair is within the
\* threshold; it examines no pair at the end of the chain.
C8_Abort ==
    pc \in {"print", "aborted"} =>
        LET start == IF pc = "print" THEN this ELSE nxt IN
        /\ examined = Compared(start)
        /\ pc = "aborted" <=> \E p \in Compared(start) : Gap0(p[1]) # Gap1(p[1])

\* C8 happens: an abort on a pair that is at the threshold or beyond it.
C8_Witness ==
    /\ pc = "aborted"
    /\ \E p \in examined :
          /\ Gap0(p[1]) # Gap1(p[1])
          /\ Gap0(p[1]) >= 2 * context + 1

\* C9: the bytes print_context_function writes after the leading space are
\* at most 40, hold no newline, do not end in white space, and are the
\* bytes of the line from its first byte that is not white space.
C9_FunctionLabel ==
    Rendered("function") =>
        LET line == probe.line
            out == Tail(outfile)
            first == CHOOSE f \in 1..Len(line) :
                        /\ ~c_isspace(line[f]) \/ line[f] = "\n"
                        /\ \A k \in 1..(f - 1) : c_isspace(line[k])
        IN /\ outfile[1] = " "
           /\ Len(out) <= LabelWidth
           /\ \A k \in 1..Len(out) : out[k] # "\n"
           /\ out # <<>> => ~c_isspace(out[Len(out)])
           /\ out = SubSeq(line, first, first + Len(out) - 1)

\* C9 happens: a line longer than 40 bytes after its leading white space
\* is cut to 40 bytes.
C9_Witness ==
    /\ Rendered("function")
    /\ probe.line[1] = " "
    /\ Len(probe.line) > LabelWidth + 3
    /\ Len(outfile) = LabelWidth + 1

Prepared == pc = "script" /\ nxt = head /\ groups = <<>>

\* C10: when the ignore-marking phase has run, running it again leaves
\* every change with the same ignore flag.
C10_PrepareIdempotent ==
    Prepared =>
        \A k \in 1..NChanges : PrepareScript(script)[k].ignore = script[k].ignore

\* C10 happens: the phase has run with both options set and has marked
\* one change and not the other.
C10_Witness ==
    /\ Prepared
    /\ ignore_blank_lines /\ ignore_regexp
    /\ \E k \in 1..NChanges : script[k].ignore
    /\ \E k \in 1..NChanges : ~script[k].ignore

\* The change K is linked to the change that follows it in the script, the
\* last one to nothing: the chain as it is handed to print_context_script.
Linked(k) == script[k].link = IF k < NChanges THEN k + 1 ELSE NULL

\* The edit a change describes: every field of it but link and ignore.
SameEdit(a, b) ==
    /\ a.line0 = b.line0
    /\ a.line1 = b.line1
    /\ a.deleted = b.deleted
    /\ a.inserted = b.inserted

\* print_context_script has not entered print_script yet.
Preparing == pc \in {"idle", "mark", "marking"}

\* C11: script preparation (mark_ignorable, or the else-branch clearing the
\* flags) changes no line0, line1, deleted or inserted and leaves the chain
\* with the same changes in the same order: before it, between two changes
\* and after it every change is linked to its successor.  While a change is
\* analysed, that change and no other has its link nulled.
C11_PrepareFrame ==
    /\ [](pc \in {"idle", "mark", "script"} => \A k \in 1..NChanges : Linked(k))
    /\ [](pc = "marking" =>
            /\ script[cur].link = NULL
            /\ \A k \in 1..NChanges : k # cur => Linked(k))
    /\ [][Preparing =>
            /\ Len(script') = Len(script)
            /\ \A k \in 1..NChanges : SameEdit(script'[k], script[k])]_vars

\* The second of three changes is detached for analysis after the first
\* one has been marked ignorable and linked again.
C11_Witness ==
    /\ pc = "marking"
    /\ cur = 2
    /\ saved = 3
    /\ script[2].link = NULL
    /\ script[1].ignore
    /\ script[1].link = 2

\* The chain as find_hunk saw it at the call print_script has just made:
\* the hunk it cut off is linked to the rest again.
AtFindHunk == [script EXCEPT ![endp].link = nxt]

\* The chain S with the ignore flag of change K set to B.
Flagged(s, k, b) == [s EXCEPT ![k].ignore = b]

\* find_hunk called on change K of S goes on to change K + 1.
Includes(s, k) == find_hunk(s, k).end # k

Covering(h, f, i) ==
    {k \in {h.run[n] : n \in 1..Len(h.run)} :
        IF f = 0
        THEN script[k].line0 <= i /\ i < script[k].line0 + script[k].deleted
        ELSE script[k].line1 <= i /\ i < script[k].line1 + script[k].inserted}

\* The mark of line I of file F, judged against all the changes of H.
MarkOf(h, f, i) ==
    LET c == Covering(h, f, i)
    IN IF c = {} THEN " "
       ELSE IF f = 0
       THEN (IF \E k \in c : script[k].inserted > 0 THEN "!" ELSE "-")
       ELSE (IF \E k \in c : script[k].deleted > 0 THEN "!" ELSE "+")

\* The window of H in file F, each line once, in increasing order, with
\* the mark MarkOf gives it.
Section(h, f) ==
    LET first == IF f = 0 THEN h.first0 ELSE h.first1
        last == IF f = 0 THEN h.last0 ELSE h.last1
    IN [n \in 1..(last - first + 1) |->
           Line(MarkOf(h, f, first + n - 1), f, first + n - 1)]

\* C13: the file-0 section of a context hunk, printed when the hunk
\* deletes lines, holds every line of first0..last0 once, in increasing
\* order, marked "-" iff it is in a change of the hunk with inserted = 0,
\* "!" iff it is in one with inserted > 0 and " " iff it is in none; the
\* file-1 section, printed when the hunk inserts lines, likewise with
\* "+" / "!" / " " judged on deleted.
C13_ContextMarks ==
    \A n \in 1..Len(hunks) :
        hunks[n].fmt = "context" =>
            hunks[n].lines =
                (IF "OLD" \in hunks[n].changes THEN Section(hunks[n], 0) ELSE <<>>)
                \o (IF "NEW" \in hunks[n].changes THEN Section(hunks[n], 1) ELSE <<>>)

\* A context hunk of a deletion, a pure insertion and a deletion has been
\* printed, with both sections and an unmarked line between two changes.
C13_Witness ==
    \E n \in 1..Len(hunks) :
        LET h == hunks[n] IN
        /\ h.fmt = "context" /\ Len(h.run) = 3
        /\ script[h.run[1]].deleted > 0 /\ script[h.run[1]].inserted = 0
        /\ script[h.run[2]].deleted = 0 /\ script[h.run[2]].inserted > 0
        /\ script[h.run[3]].deleted > 0 /\ script[h.run[3]].inserted = 0
        /\ h.changes = {"OLD", "NEW"}
        /\ \E m \in 1..Len(h.lines) :
               /\ h.lines[m] = Line(" ", 0, script[h.run[2]].line0 - 1)
               /\ script[h.run[1]].line0 < h.lines[m].line

\* The lines of file F among LINES, in the order they were written.
OfFile(lines, f) ==
    LET from(l) == l.file = f IN SelectSeq(lines, from)

\* The inserted lines of the first N changes of hunk H, change by change.
RECURSIVE InsertedLines(_, _)
InsertedLines(h, n) ==
    IF n = 0 THEN <<>>
    ELSE InsertedLines(h, n - 1)
         \o Lines("+", 1, script[h.run[n]].line1, script[h.run[n]].inserted)

\* LINES holds BLOCK as a run of adjacent lines.
Holds(lines, block) ==
    \E p \in 0..(Len(lines) - Len(block)) :
        SubSeq(lines, p + 1, p + Len(block)) = block

\* C14: in every unified hunk written for a consistent script, the lines
\* taken from file 0 are first0..last0, each once and in increasing order,
\* as a context line or a "-" line; the lines taken from file 1 are the
\* inserted lines of the changes of the hunk, each once and in increasing
\* order, as "+" lines; a context line is a line of file 0 and moves the
\* file-1 cursor by one as well, so that a "+" line is the line of file 1
\* that many context and "+" lines after first1; and the "-" lines of a
\* change come in one block right before its "+" lines.
C14_UnidiffOrder ==
    Consistent =>
        \A n \in 1..Len(hunks) :
            LET h == hunks[n] IN
            h.fmt = "unified" =>
                /\ \A m \in 1..Len(h.lines) :
                       /\ h.lines[m].mark \in {" ", "-", "+"}
                       /\ h.lines[m].file = (IF h.lines[m].mark = "+" THEN 1 ELSE 0)
                       /\ h.lines[m].mark = "+" =>
                              h.lines[m].line =
                                  h.first1 + Count(SubSeq(h.lines, 1, m - 1), {" ", "+"})
                /\ LET old == OfFile(h.lines, 0)
                   IN /\ Len(old) = Max(h.last0 - h.first0 + 1, 0)
                      /\ \A m \in 1..Len(old) : old[m].line = h.first0 + m - 1
                /\ OfFile(h.lines, 1) = InsertedLines(h, Len(h.run))
                /\ \A m \in 1..Len(h.run) :
                       LET c == script[h.run[m]]
                       IN Holds(h.lines, Lines("-", 0, c.line0, c.deleted)
                                         \o Lines("+", 1, c.line1, c.inserted))

\* A unified hunk of two changes that both delete and insert has been
\* written, with a context line between them.
C14_Witness ==
    \E n \in 1..Len(hunks) :
        LET h == hunks[n] IN
        /\ Consistent /\ h.fmt = "unified" /\ Len(h.run) >= 2
        /\ \A m \in 1..2 :
               script[h.run[m]].deleted > 0 /\ script[h.run[m]].inserted > 0
        /\ script[h.run[1]].line0 + script[h.run[1]].deleted < script[h.run[2]].line0
        /\ Count(h.lines, {" "}) >= 1

\* The hunks print_script has formed so far are runs of successive changes
\* that follow one another from the head of the script, without a gap.
Successive ==
    \A n \in 1..Len(groups) :
        /\ groups[n][1] = (IF n = 1 THEN head ELSE groups[n - 1][2] + 1)
        /\ groups[n][1] <= groups[n][2]
        /\ groups[n][2] <= NChanges

\* The number of hunks change K is in.
HunksOf(k) ==
    Cardinality({n \in 1..Len(groups) : groups[n][1] <= k /\ k <= groups[n][2]})

\* What holds of find_hunk and of the hunks at every state of print_script.
Partitioned ==
    Consistent =>
        /\ (pc = "script" /\ nxt # NULL) =>
               LET r == find_hunk(script, nxt)
               IN /\ ~r.abort
                  /\ r.end # NULL
                  /\ \E n \in 1..Len(Run(script, nxt)) : Run(script, nxt)[n] = r.end
        /\ Grouped =>
               /\ Successive
               /\ \A k \in 1..NChanges : HunksOf(k) <= 1
        /\ (pc \in {"script", "print"}) =>
               nxt = (IF groups = <<>> THEN head
                      ELSE IF groups[Len(groups)][2] = NChanges THEN NULL
                      ELSE groups[Len(groups)][2] + 1)
        /\ pc = "done" =>
               /\ groups # <<>>
               /\ groups[Len(groups)][2] = NChanges
               /\ script[groups[Len(groups)][2]].link = NULL
               /\ \A k \in 1..NChanges : HunksOf(k) = 1

\* The changes print_script has still to put in a hunk.
Remaining == IF nxt = NULL THEN 0 ELSE NChanges - nxt + 1

\* C15: for a non-empty consistent script every call of find_hunk made by
\* print_script returns, without aborting, a non-null change that is the
\* start or is reached from it through link; the hunks so formed follow one
\* another in script order and no change is in two of them; every call
\* leaves fewer changes to group, so print_script comes to an end, and when
\* it has, the last change returned is the last of the chain and every
\* change is in exactly one hunk.
C15_HunkPartition ==
    /\ []Partitioned
    /\ [][(Consistent /\ pc = "script" /\ nxt # NULL) =>
              (pc' = "print" /\ Remaining' < Remaining)]_vars
    /\ [][(Consistent /\ pc = "print") =>
              (pc' = "script" /\ Remaining' = Remaining)]_vars

\* A script of three changes has been printed as two hunks.
C15_Witness ==
    /\ Consistent /\ pc = "done" /\ NChanges = 3
    /\ groups = <<(<<1, 2>>), (<<3, 3>>)>>

====
